---- MODULE Spec2Model ----
(***************************************************************************)
(* A model of nbd-netlink (src/src/lib.rs): the NBD netlink handle         *)
(* (NBD::new), the connect builder (NBDConnect and its setters) and the    *)
(* single request/reply exchange of NBDConnect::connect.                   *)
(*                                                                         *)
(* u64 fields are naturals; the bit operations are computed bit by bit, so *)
(* `x & !m` is exact for every 64-bit x.  Attribute payloads are byte      *)
(* sequences in the wire layout neli gives them (little-endian scalars,    *)
(* nla_len/nla_type headers, 4-byte alignment).                            *)
(***************************************************************************)
EXTENDS Naturals, Sequences, FiniteSets

(* ------------------------------------------------------------------ *)
(* Bounds of the model                                                  *)
(* ------------------------------------------------------------------ *)
\* longest socket list handed to connect
MaxSockets == 2
\* replies that may stay unread in the netlink socket between calls
MaxStale == 1

(* ------------------------------------------------------------------ *)
(* Input domains                                                        *)
(* ------------------------------------------------------------------ *)
Sizes == {0, 1048576}
BlockSizes == {512, 4096}
Fds == {3, 300}
FamilyIds == {27, 28}

(* ------------------------------------------------------------------ *)
(* Protocol constants                                                   *)
(* ------------------------------------------------------------------ *)
NbdCmd_Connect == 1
NbdAttr_Index == 1
NbdAttr_SizeBytes == 2
NbdAttr_BlockSizeBytes == 3
NbdAttr_ServerFlags == 5
NbdAttr_ClientFlags == 6
NbdAttr_Sockets == 7
NbdSockItem_Item == 1
NbdSock_Fd == 1

HAS_FLAGS == 1
READ_ONLY == 2
CAN_MULTI_CONN == 256
NBD_CFLAG_DISCONNECT_ON_CLOSE == 2

\* NlmF::Request and NlmF::Ack, the netlink header flag bits
NLM_F_REQUEST == 1
NLM_F_ACK == 4
\* the version byte given to Genlmsghdr::new
GENL_VERSION == 1
\* the nla_type bit neli sets for a nested attribute
NLA_F_NESTED == 32768
\* the netlink message type of a kernel error/ack message
NLMSG_ERROR == 2

(* ------------------------------------------------------------------ *)
(* Bit operations on unsigned integers                                  *)
(* ------------------------------------------------------------------ *)
RECURSIVE BitOr(_, _)
BitOr(a, b) ==
    IF a = 0 THEN b
    ELSE IF b = 0 THEN a
    ELSE (IF a % 2 = 1 \/ b % 2 = 1 THEN 1 ELSE 0) + 2 * BitOr(a \div 2, b \div 2)

RECURSIVE BitAnd(_, _)
BitAnd(a, b) ==
    IF a = 0 \/ b = 0 THEN 0
    ELSE (IF a % 2 = 1 /\ b % 2 = 1 THEN 1 ELSE 0) + 2 * BitAnd(a \div 2, b \div 2)

\* a & !m
RECURSIVE BitAndNot(_, _)
BitAndNot(a, m) ==
    IF a = 0 THEN 0
    ELSE (IF a % 2 = 1 /\ m % 2 = 0 THEN 1 ELSE 0) + 2 * BitAndNot(a \div 2, m \div 2)

RECURSIVE Pow2(_)
Pow2(k) == IF k = 0 THEN 1 ELSE 2 * Pow2(k - 1)

Bit(a, k) == (a \div Pow2(k)) % 2

(* ------------------------------------------------------------------ *)
(* Byte encodings                                                       *)
(* ------------------------------------------------------------------ *)
\* the n-byte native (little-endian) encoding of v
RECURSIVE ToBytes(_, _)
ToBytes(v, n) == IF n = 0 THEN <<>> ELSE <<v % 256>> \o ToBytes(v \div 256, n - 1)

RECURSIVE FromBytes(_)
FromBytes(bytes) ==
    IF bytes = <<>> THEN 0 ELSE bytes[1] + 256 * FromBytes(Tail(bytes))

Aligned(n) == ((n + 3) \div 4) * 4

RECURSIVE Zeros(_)
Zeros(n) == IF n = 0 THEN <<>> ELSE <<0>> \o Zeros(n - 1)

(* ------------------------------------------------------------------ *)
(* Netlink attributes (neli's Nlattr with a Buffer payload)             *)
(* ------------------------------------------------------------------ *)
\* Nlattr::new(None, nested, false, t, p): the length covers header and payload
NlattrNew(nested, t, payload) ==
    [nla_len |-> 4 + Len(payload), nla_nested |-> nested, nla_type |-> t,
     payload |-> payload]

\* the wire form of one attribute: nla_len, nla_type (with the nested bit),
\* the payload, and padding to a multiple of four bytes
SerializeAttr(a) ==
    ToBytes(a.nla_len, 2)
        \o ToBytes(a.nla_type + (IF a.nla_nested THEN NLA_F_NESTED ELSE 0), 2)
        \o a.payload
        \o Zeros(Aligned(Len(a.payload)) - Len(a.payload))

\* Nlattr::add_nested_attribute: append the serialized child to the payload
AddNestedAttribute(a, child) ==
    [a EXCEPT !.payload = @ \o SerializeAttr(child),
              !.nla_len = @ + Len(SerializeAttr(child))]

\* the attributes a payload holds, read back from its bytes
RECURSIVE ParseAttrs(_)
ParseAttrs(bytes) ==
    IF Len(bytes) < 4 THEN <<>>
    ELSE LET len == FromBytes(SubSeq(bytes, 1, 2))
             ty == FromBytes(SubSeq(bytes, 3, 4))
         IN  IF len < 4 \/ len > Len(bytes) THEN <<>>
             ELSE <<[nla_len |-> len,
                     nla_nested |-> (ty \div NLA_F_NESTED) = 1,
                     nla_type |-> ty % NLA_F_NESTED,
                     payload |-> SubSeq(bytes, 5, len)]>>
                  \o ParseAttrs(SubSeq(bytes, Aligned(len) + 1, Len(bytes)))

\* fn attr(t, p): a plain (not nested) attribute
attr(t, payload) == NlattrNew(FALSE, t, payload)

(* ------------------------------------------------------------------ *)
(* The builder's setters, as functions on the field they change         *)
(* ------------------------------------------------------------------ *)
DefaultBuilder ==
    [size_bytes |-> 0, block_size_bytes |-> 4096,
     server_flags |-> HAS_FLAGS, client_flags |-> 0]

read_only_flags_clobber(flags, b) ==
    IF b THEN BitOr(flags, READ_ONLY) ELSE BitAnd(flags, READ_ONLY)

read_only_flags(flags, b) ==
    IF b THEN BitOr(flags, READ_ONLY) ELSE BitAndNot(flags, READ_ONLY)

can_multi_conn_flags_assign(flags, b) ==
    IF b THEN CAN_MULTI_CONN ELSE 0

can_multi_conn_flags(flags, b) ==
    IF b THEN BitOr(flags, CAN_MULTI_CONN) ELSE BitAndNot(flags, CAN_MULTI_CONN)

disconnect_on_close_flags(flags, b) ==
    IF b THEN BitOr(flags, NBD_CFLAG_DISCONNECT_ON_CLOSE)
    ELSE BitAndNot(flags, NBD_CFLAG_DISCONNECT_ON_CLOSE)

(* ------------------------------------------------------------------ *)
(* connect: building the request                                        *)
(* ------------------------------------------------------------------ *)
\* the loop over the sockets: one nested Item per socket, holding one Fd
RECURSIVE AddSockets(_, _)
AddSockets(sockets_attr, socks) ==
    IF socks = <<>> THEN sockets_attr
    ELSE AddSockets(
            AddNestedAttribute(sockets_attr,
                NlattrNew(TRUE, NbdSockItem_Item,
                          SerializeAttr(attr(NbdSock_Fd, ToBytes(Head(socks), 4))))),
            Tail(socks))

RECURSIVE Reverse(_)
Reverse(s) == IF s = <<>> THEN <<>> ELSE Append(Reverse(Tail(s)), Head(s))

SocketsAttr_reversed(socks) ==
    AddSockets(NlattrNew(TRUE, NbdAttr_Sockets, <<>>), Reverse(socks))

SocketsAttr(socks) ==
    AddSockets(NlattrNew(TRUE, NbdAttr_Sockets, <<>>), socks)

RequestAttrs_swapped(b, socks) ==
    << attr(NbdAttr_SizeBytes, ToBytes(b.size_bytes, 8)),
       attr(NbdAttr_BlockSizeBytes, ToBytes(b.block_size_bytes, 8)),
       attr(NbdAttr_ClientFlags, ToBytes(b.client_flags, 8)),
       attr(NbdAttr_ServerFlags, ToBytes(b.server_flags, 8)),
       SocketsAttr(socks) >>

\* the GenlBuffer of the request: four scalars, then the sockets
RequestAttrs(b, socks) ==
    << attr(NbdAttr_SizeBytes, ToBytes(b.size_bytes, 8)),
       attr(NbdAttr_BlockSizeBytes, ToBytes(b.block_size_bytes, 8)),
       attr(NbdAttr_ServerFlags, ToBytes(b.server_flags, 8)),
       attr(NbdAttr_ClientFlags, ToBytes(b.client_flags, 8)),
       SocketsAttr(socks) >>

RequestFlags_with_ack == BitOr(NLM_F_REQUEST, NLM_F_ACK)

\* NlmFFlags::new(&[NlmF::Request])
RequestFlags == NLM_F_REQUEST

\* Nlmsghdr::new(None, nbd_family, flags, None, None, Payload(Genlmsghdr::new(Connect, 1, attrs)))
BuildRequest(nbd_family, attrs) ==
    [nl_type |-> nbd_family, nl_flags |-> RequestFlags,
     cmd |-> NbdCmd_Connect, version |-> GENL_VERSION, attrs |-> attrs]

(* ------------------------------------------------------------------ *)
(* connect: reading the reply                                           *)
(* ------------------------------------------------------------------ *)
Ok(index) == [status |-> "ok", index |-> index, err |-> "none"]
Err(e) == [status |-> "err", index |-> 0, err |-> e]
NotCalled == [status |-> "none", index |-> 0, err |-> "none"]

\* AttrHandle::get_attribute: the first attribute of the given type, if any
RECURSIVE GetAttribute(_, _)
GetAttribute(attrs, t) ==
    IF attrs = <<>> THEN <<>>
    ELSE IF Head(attrs).nla_type = t THEN <<Head(attrs)>>
    ELSE GetAttribute(Tail(attrs), t)

GetIndex_default(reply) ==
    IF reply.kind # "payload" THEN Err("MalformedResponse")
    ELSE LET a == GetAttribute(reply.attrs, NbdAttr_Index)
         IN  IF a = <<>> \/ Len(a[1].payload) # 4 THEN Ok(0)
             ELSE Ok(FromBytes(a[1].payload))

\* response.get_payload()?.get_attr_handle().get_attr_payload_as::<u32>(Index)?
\* The header's nl_type and the command are not looked at.
GetIndex(reply) ==
    IF reply.kind # "payload" THEN Err("MalformedResponse")
    ELSE LET a == GetAttribute(reply.attrs, NbdAttr_Index)
         IN  IF a = <<>> THEN Err("MalformedResponse")
             ELSE IF Len(a[1].payload) # 4 THEN Err("MalformedResponse")
             ELSE Ok(FromBytes(a[1].payload))

\* What one connect call leaves behind.
Outcome(request, io, response, result, queue) ==
    [request |-> request, io |-> io, response |-> response, result |-> result,
     nl |-> queue]

\* nbd.nl.recv()?.ok_or_else(..)? and the decoding that follows.  `queue` is the
\* socket's receive queue, oldest first: one entry per reply that waits in it,
\* saying whether it answers the request of this call ("this") or of an earlier
\* one ("earlier").  A failed recv takes nothing out of the queue.
Receive(msg, queue, recv_fails, reply) ==
    IF recv_fails THEN
        Outcome(<<msg>>, <<"send_ok", "recv_err">>, <<>>, Err("ReceiveFailure"), queue)
    ELSE IF queue = <<>> THEN
        Outcome(<<msg>>, <<"send_ok", "recv_none">>, <<>>, Err("NoResponse"), queue)
    ELSE Outcome(<<msg>>, <<"send_ok", "recv_msg">>,
                 <<[re |-> Head(queue), nl_type |-> reply.nl_type,
                    kind |-> reply.kind, attrs |-> reply.attrs]>>,
                 IF reply.kind = "nlmsgerr" THEN Err("ReceiveFailure")
                 ELSE GetIndex(reply),
                 Tail(queue))

Transmit_ignore_error(msg, queue, send_ok, kernel_replies, recv_fails, reply) ==
    IF ~send_ok THEN
        [Receive(msg, queue, recv_fails, reply) EXCEPT !.io = <<"send_err">> \o Tail(@)]
    ELSE Receive(msg, IF kernel_replies THEN Append(queue, "this") ELSE queue,
                 recv_fails, reply)

\* nbd.nl.send(nl_header)?: on failure the call ends; on success the kernel
\* has the request and queues its reply, and the call goes on to receive.
Transmit(msg, queue, send_ok, kernel_replies, recv_fails, reply) ==
    IF ~send_ok THEN
        Outcome(<<msg>>, <<"send_err">>, <<>>, Err("TransmitFailure"), queue)
    ELSE Receive(msg, IF kernel_replies THEN Append(queue, "this") ELSE queue,
                 recv_fails, reply)

\* The request of NBDConnect::connect: the attributes, then the headers.
EncodeRequest(b, nbd_family, socks) ==
    BuildRequest(nbd_family, RequestAttrs(b, socks))

\* The body of NBDConnect::connect after the request is built: every `?` ends
\* the call with the error; `e` is what the library and the kernel answer.
Exchange(msg, queue, e) ==
    IF ~e.enc_ok THEN Outcome(<<>>, <<>>, <<>>, Err("EncodeFailure"), queue)
    ELSE Transmit(msg, queue, e.send_ok, e.kernel_replies, e.recv_fails, e.reply)

\* once a call has returned, the replies still waiting answer earlier requests
Aged(queue) == [i \in DOMAIN queue |-> "earlier"]

(* ------------------------------------------------------------------ *)
(* NBD::new                                                             *)
(* ------------------------------------------------------------------ *)
Closed == [open |-> FALSE, nbd_family |-> 0]
NewResult(sock_ok, ret) == [sock_ok |-> sock_ok, ret |-> ret]

NBDNewRun_no_context(sock_ok, resolved, family) ==
    IF ~sock_ok THEN [nbd |-> Closed, result |-> NewResult(FALSE, "SocketOpen")]
    ELSE IF ~resolved THEN [nbd |-> Closed, result |-> NewResult(TRUE, "SocketOpen")]
    ELSE [nbd |-> [open |-> TRUE, nbd_family |-> family], result |-> NewResult(TRUE, "ok")]

\* NlSocketHandle::new(..)? then resolve_genl_family("nbd").context(..)?:
\* the first error is passed on as it is, the second under the context
\* "Could not resolve the NBD generic netlink family".
NBDNewRun(sock_ok, resolved, family) ==
    IF ~sock_ok THEN [nbd |-> Closed, result |-> NewResult(FALSE, "SocketOpen")]
    ELSE IF ~resolved THEN [nbd |-> Closed, result |-> NewResult(TRUE, "FamilyNotFound")]
    ELSE [nbd |-> [open |-> TRUE, nbd_family |-> family], result |-> NewResult(TRUE, "ok")]

(* ------------------------------------------------------------------ *)
(* State                                                                *)
(* ------------------------------------------------------------------ *)
VARIABLES
    size_bytes, block_size_bytes, server_flags, client_flags,  \* the NBDConnect builder
    kernel,       \* whether the kernel has the "nbd" family, and its id
    nbd,          \* the NBD handle: open, and the resolved nbd_family
    new_result,   \* what the last NBD::new returned, and whether its socket opened
    nl,           \* the handle's socket: the replies that wait in it, unread
    sockets,      \* the socket list given to the connect call that is returning
    request,      \* the request that call built (<<>> if it built none)
    io,           \* the socket calls that call made, in order
    response,     \* the reply that call received (<<>> if none)
    result        \* what that call returns

builder_vars == <<size_bytes, block_size_bytes, server_flags, client_flags>>
handle_vars == <<kernel, nbd, new_result>>
sock_vars == <<nl>>
call_vars == <<sockets, request, io, response, result>>
vars == <<builder_vars, handle_vars, sock_vars, call_vars>>

Builder ==
    [size_bytes |-> size_bytes, block_size_bytes |-> block_size_bytes,
     server_flags |-> server_flags, client_flags |-> client_flags]

\* socket lists of up to MaxSockets descriptors
SocketLists == UNION {[1..n -> Fds] : n \in 0..MaxSockets}

\* the attribute lists a reply may carry
ReplyAttrs ==
    { <<>>,
      <<attr(NbdAttr_Index, ToBytes(3, 4))>>,
      <<attr(NbdAttr_SizeBytes, ToBytes(0, 8)), attr(NbdAttr_Index, ToBytes(7, 4))>>,
      <<attr(NbdAttr_Index, ToBytes(3, 2))>>,
      <<attr(NbdAttr_Index, ToBytes(3, 8))>> }

\* what recv may deserialize: a generic-netlink payload, or an error/ack message
Replies ==
    [kind : {"payload"}, nl_type : FamilyIds, attrs : ReplyAttrs]
        \cup [kind : {"nlmsgerr", "ack"}, nl_type : {NLMSG_ERROR}, attrs : {<<>>}]

\* What the library and the kernel may answer during one connect call.  An
\* answer that the call never gets to see is left at one fixed value.
NoReply == [kind |-> "ack", nl_type |-> NLMSG_ERROR, attrs |-> <<>>]
Env(enc_ok, send_ok, kernel_replies, recv_fails, reply) ==
    [enc_ok |-> enc_ok, send_ok |-> send_ok, kernel_replies |-> kernel_replies,
     recv_fails |-> recv_fails, reply |-> reply]
Envs ==
    { Env(FALSE, FALSE, FALSE, FALSE, NoReply),   \* building the request fails
      Env(TRUE, FALSE, FALSE, FALSE, NoReply),    \* send fails
      Env(TRUE, TRUE, TRUE, TRUE, NoReply),       \* recv fails, the reply stays queued
      Env(TRUE, TRUE, FALSE, FALSE, NoReply) }    \* the kernel sends no reply
        \cup {Env(TRUE, TRUE, TRUE, FALSE, r) : r \in Replies}

Init ==
    /\ size_bytes = DefaultBuilder.size_bytes
    /\ block_size_bytes = DefaultBuilder.block_size_bytes
    /\ server_flags = DefaultBuilder.server_flags
    /\ client_flags = DefaultBuilder.client_flags
    /\ kernel \in [registered : BOOLEAN, family : FamilyIds]
    /\ nbd = Closed
    /\ new_result = NewResult(FALSE, "none")
    /\ nl = <<>>
    /\ sockets = <<>>
    /\ request = <<>>
    /\ io = <<>>
    /\ response = <<>>
    /\ result = NotCalled

(* ------------------------------------------------------------------ *)
(* Operations                                                           *)
(* ------------------------------------------------------------------ *)
\* The program is sequential: an operation starts when no connect call is
\* returning.
Idle == result.status = "none"

\* NBD::new()
NBDNew(sock_ok, lookup_ok) ==
    /\ Idle
    /\ ~nbd.open
    /\ \E r \in {NBDNewRun(sock_ok, kernel.registered /\ lookup_ok, kernel.family)} :
           /\ nbd' = r.nbd
           /\ new_result' = r.result
    /\ UNCHANGED <<builder_vars, kernel, sock_vars, call_vars>>

\* NBDConnect::new()
NBDConnectNew ==
    /\ Idle
    /\ size_bytes' = DefaultBuilder.size_bytes
    /\ block_size_bytes' = DefaultBuilder.block_size_bytes
    /\ server_flags' = DefaultBuilder.server_flags
    /\ client_flags' = DefaultBuilder.client_flags
    /\ UNCHANGED <<handle_vars, sock_vars, call_vars>>

\* NBDConnect::size_bytes(bytes)
SizeBytes(bytes) ==
    /\ Idle
    /\ size_bytes' = bytes
    /\ UNCHANGED <<block_size_bytes, server_flags, client_flags, handle_vars,
                   sock_vars, call_vars>>

\* NBDConnect::block_size(bytes)
BlockSize(bytes) ==
    /\ Idle
    /\ block_size_bytes' = bytes
    /\ UNCHANGED <<size_bytes, server_flags, client_flags, handle_vars,
                   sock_vars, call_vars>>

\* NBDConnect::read_only(read_only)
ReadOnly(b) ==
    /\ Idle
    /\ server_flags' = read_only_flags(server_flags, b)
    /\ UNCHANGED <<size_bytes, block_size_bytes, client_flags, handle_vars,
                   sock_vars, call_vars>>

\* NBDConnect::can_multi_conn(can_multi_conn)
CanMultiConn(b) ==
    /\ Idle
    /\ server_flags' = can_multi_conn_flags(server_flags, b)
    /\ UNCHANGED <<size_bytes, block_size_bytes, client_flags, handle_vars,
                   sock_vars, call_vars>>

\* NBDConnect::disconnect_on_close(disconnect_on_close)
DisconnectOnClose(b) ==
    /\ Idle
    /\ client_flags' = disconnect_on_close_flags(client_flags, b)
    /\ UNCHANGED <<size_bytes, block_size_bytes, server_flags, handle_vars,
                   sock_vars, call_vars>>

\* NBDConnect::connect(&self, &mut nbd, sockets)
Connect(socks) ==
    /\ Idle
    /\ nbd.open
    /\ \E msg \in {EncodeRequest(Builder, nbd.nbd_family, socks)} :
       \E e \in Envs :
       \E o \in {Exchange(msg, nl, e)} :
           /\ Len(o.nl) <= MaxStale
           /\ nl' = Aged(o.nl)
           /\ sockets' = socks
           /\ request' = o.request
           /\ io' = o.io
           /\ response' = o.response
           /\ result' = o.result
    /\ UNCHANGED <<builder_vars, handle_vars>>

\* connect's caller takes the Result<u32>; the call is over.
Return ==
    /\ ~Idle
    /\ sockets' = <<>>
    /\ request' = <<>>
    /\ io' = <<>>
    /\ response' = <<>>
    /\ result' = NotCalled
    /\ UNCHANGED <<builder_vars, handle_vars, sock_vars>>

Next ==
    \/ \E sock_ok \in BOOLEAN, lookup_ok \in BOOLEAN : NBDNew(sock_ok, lookup_ok)
    \/ NBDConnectNew
    \/ \E bytes \in Sizes : SizeBytes(bytes)
    \/ \E bytes \in BlockSizes : BlockSize(bytes)
    \/ \E b \in BOOLEAN : ReadOnly(b)
    \/ \E b \in BOOLEAN : CanMultiConn(b)
    \/ \E b \in BOOLEAN : DisconnectOnClose(b)
    \/ \E socks \in SocketLists : Connect(socks)
    \/ Return

Spec == Init /\ [][Next]_vars

(* ------------------------------------------------------------------ *)
(* Reading a request back                                               *)
(* ------------------------------------------------------------------ *)
Built == request # <<>>
Sent == io # <<>>
Received == response # <<>>

\* the positions of the attributes of type t in an attribute list
Positions(attrs, t) == {i \in DOMAIN attrs : attrs[i].nla_type = t}

\* the value of a scalar attribute
Value(a) == FromBytes(a.payload)

\* a reply's Index attribute is its first attribute of that type; it is a u32
\* when its payload is four bytes long
IndexOf(reply) ==
    LET at == Positions(reply.attrs, NbdAttr_Index)
    IN  IF at = {} THEN <<>>
        ELSE <<reply.attrs[CHOOSE i \in at : \A j \in at : i <= j]>>
HasIndex32(reply) ==
    /\ reply.kind = "payload"
    /\ IndexOf(reply) # <<>>
    /\ Len(IndexOf(reply)[1].payload) = 4

(* ------------------------------------------------------------------ *)
(* Properties                                                           *)
(* ------------------------------------------------------------------ *)

\* C1: whatever builder calls were made, bit 0 (HAS_FLAGS) of server_flags is
\* set, and it is set in the ServerFlags attribute of every request that
\* connect builds.
C1_HasFlagsAlwaysSet ==
    /\ Bit(server_flags, 0) = 1
    /\ Built =>
         /\ Positions(request[1].attrs, NbdAttr_ServerFlags) # {}
         /\ \A i \in Positions(request[1].attrs, NbdAttr_ServerFlags) :
                Bit(Value(request[1].attrs[i]), 0) = 1

C1_Witness ==
    /\ Built
    /\ server_flags = HAS_FLAGS + CAN_MULTI_CONN
    /\ client_flags = NBD_CFLAG_DISCONNECT_ON_CLOSE
    /\ size_bytes = 1048576
    /\ block_size_bytes = 512

\* C2: a flag toggle changes at most its own bit: read_only only bit 1 of
\* server_flags, can_multi_conn only bit 8 of server_flags, disconnect_on_close
\* only bit 1 of client_flags; every other field of the builder is left as it
\* was; and a toggle followed by the toggle back to the bit's former value
\* gives the former mask.
C2_ToggleStep ==
    /\ \A b \in BOOLEAN : ReadOnly(b) =>
          /\ BitAndNot(server_flags', READ_ONLY) = BitAndNot(server_flags, READ_ONLY)
          /\ <<size_bytes, block_size_bytes, client_flags>>'
                = <<size_bytes, block_size_bytes, client_flags>>
    /\ \A b \in BOOLEAN : CanMultiConn(b) =>
          /\ BitAndNot(server_flags', CAN_MULTI_CONN)
                = BitAndNot(server_flags, CAN_MULTI_CONN)
          /\ <<size_bytes, block_size_bytes, client_flags>>'
                = <<size_bytes, block_size_bytes, client_flags>>
    /\ \A b \in BOOLEAN : DisconnectOnClose(b) =>
          /\ BitAndNot(client_flags', NBD_CFLAG_DISCONNECT_ON_CLOSE)
                = BitAndNot(client_flags, NBD_CFLAG_DISCONNECT_ON_CLOSE)
          /\ <<size_bytes, block_size_bytes, server_flags>>'
                = <<size_bytes, block_size_bytes, server_flags>>
C2_ToggleBack ==
    \A b \in BOOLEAN :
        /\ read_only_flags(read_only_flags(server_flags, b),
                           Bit(server_flags, 1) = 1) = server_flags
        /\ can_multi_conn_flags(can_multi_conn_flags(server_flags, b),
                                Bit(server_flags, 8) = 1) = server_flags
        /\ disconnect_on_close_flags(disconnect_on_close_flags(client_flags, b),
                                     Bit(client_flags, 1) = 1) = client_flags
C2_TogglesTouchOwnBitOnly == [](C2_ToggleBack) /\ [][C2_ToggleStep]_vars

C2_Witness ==
    /\ server_flags = HAS_FLAGS + READ_ONLY + CAN_MULTI_CONN
    /\ client_flags = NBD_CFLAG_DISCONNECT_ON_CLOSE
    /\ size_bytes = 1048576
    /\ block_size_bytes = 512

\* C3: the request holds exactly one Sockets container; read back from its
\* bytes it holds one nested Item per input socket, in input order, each
\* holding exactly one Fd attribute of four bytes whose value is that
\* socket's descriptor; with no sockets the container is there and is empty.
C3_SocketsEncoded ==
    Built =>
      LET at == Positions(request[1].attrs, NbdAttr_Sockets)
      IN  /\ Cardinality(at) = 1
          /\ \A p \in at :
               LET container == request[1].attrs[p]
                   items == ParseAttrs(container.payload)
               IN  /\ container.nla_nested
                   /\ container.nla_len = 4 + Len(container.payload)
                   /\ sockets = <<>> => container.payload = <<>>
                   /\ Len(items) = Len(sockets)
                   /\ \A i \in DOMAIN items :
                        LET fds == ParseAttrs(items[i].payload)
                        IN  /\ items[i].nla_type = NbdSockItem_Item
                            /\ items[i].nla_nested
                            /\ Len(fds) = 1
                            /\ fds[1].nla_type = NbdSock_Fd
                            /\ ~fds[1].nla_nested
                            /\ Len(fds[1].payload) = 4
                            /\ Value(fds[1]) = sockets[i]

C3_Witness ==
    /\ Built
    /\ sockets = <<300, 3>>
    /\ Len(ParseAttrs(request[1].attrs[5].payload)) = 2

\* C4 (as claimed): a reply whose header type is not the handle's family id
\* makes connect return an error (ProtocolMismatch), never a device index,
\* also when the reply carries a well-formed Index attribute.
C4_MismatchRejected ==
    (Received /\ response[1].kind = "payload"
        /\ response[1].nl_type # nbd.nbd_family)
    => (result.status = "err"
        /\ (HasIndex32(response[1]) => result.err = "ProtocolMismatch"))

\* C5 (as claimed): the request goes to the handle's family id, with command
\* Connect, version 1, and both the request and the acknowledgement flag.
C5_RequestHeaderWithAck ==
    Sent =>
      /\ request[1].nl_type = nbd.nbd_family
      /\ request[1].cmd = NbdCmd_Connect
      /\ request[1].version = 1
      /\ BitAnd(request[1].nl_flags, NLM_F_REQUEST) = NLM_F_REQUEST
      /\ BitAnd(request[1].nl_flags, NLM_F_ACK) = NLM_F_ACK

\* C5 (amended): the request goes to the handle's family id, with command
\* Connect (1), version 1, and the request flag as its only header flag: the
\* acknowledgement flag is not set.
C5_RequestHeader ==
    Sent =>
      /\ request[1].nl_type = nbd.nbd_family
      /\ request[1].cmd = 1
      /\ request[1].version = 1
      /\ request[1].nl_flags = NLM_F_REQUEST
      /\ BitAnd(request[1].nl_flags, NLM_F_ACK) = 0

C5_Witness ==
    /\ Sent
    /\ io[1] = "send_ok"
    /\ request[1].nl_type = 28

\* C6 (as claimed): every reply that a connect call decodes answers the
\* request that this call sent: no request is sent while the reply to an
\* earlier one is still unread.
C6_ReplyAnswersOwnRequest ==
    Received => response[1].re = "this"

\* C7: connect returns an index only when the reply it received carries an
\* Index attribute of four bytes, and then returns that attribute's value; a
\* generic-netlink reply without such an attribute gives MalformedResponse,
\* and no reply without it gives an index.
C7_IndexOnlyFromReply ==
    /\ result.status = "ok" =>
         /\ Received
         /\ HasIndex32(response[1])
         /\ result.index = Value(IndexOf(response[1])[1])
    /\ (Received /\ ~HasIndex32(response[1])) => result.status = "err"
    /\ (Received /\ response[1].kind = "payload" /\ ~HasIndex32(response[1]))
         => result = Err("MalformedResponse")

C7_Witness ==
    /\ Received
    /\ response[1].kind = "payload"
    /\ response[1].attrs = <<>>
    /\ result = Err("MalformedResponse")

\* C8: the request carries SizeBytes, BlockSizeBytes, ServerFlags, ClientFlags
\* and Sockets in this order, the four scalars as 8-byte values equal to the
\* builder's fields at the call; a new builder is {0, 4096, 0b1, 0}; and with
\* size 1048576, read-only set and one socket the request says server_flags
\* 0b11, client_flags 0, size 1048576 and one socket item, and a reply with
\* index 3 makes connect return 3.
C8_Scenario ==
    (/\ size_bytes = 1048576 /\ block_size_bytes = 4096
     /\ server_flags = 3 /\ client_flags = 0
     /\ Len(sockets) = 1 /\ Built /\ Received
     /\ response[1].kind = "payload"
     /\ response[1].attrs = <<attr(NbdAttr_Index, ToBytes(3, 4))>>)
    => /\ Value(request[1].attrs[1]) = 1048576
       /\ Value(request[1].attrs[3]) = 3
       /\ Value(request[1].attrs[4]) = 0
       /\ Len(ParseAttrs(request[1].attrs[5].payload)) = 1
       /\ result = Ok(3)
C8_RequestCarriesBuilder ==
    /\ DefaultBuilder = [size_bytes |-> 0, block_size_bytes |-> 4096,
                         server_flags |-> 1, client_flags |-> 0]
    /\ Built =>
         /\ [i \in 1..5 |-> request[1].attrs[i].nla_type] = <<2, 3, 5, 6, 7>>
         /\ Len(request[1].attrs) = 5
         /\ \A i \in 1..4 : /\ Len(request[1].attrs[i].payload) = 8
                            /\ request[1].attrs[i].nla_len = 12
                            /\ ~request[1].attrs[i].nla_nested
         /\ [i \in 1..4 |-> Value(request[1].attrs[i])]
               = <<size_bytes, block_size_bytes, server_flags, client_flags>>
    /\ C8_Scenario

C8_Witness ==
    /\ size_bytes = 1048576 /\ block_size_bytes = 4096
    /\ server_flags = 3 /\ client_flags = 0
    /\ sockets = <<3>>
    /\ Received
    /\ response[1].attrs = <<attr(NbdAttr_Index, ToBytes(3, 4))>>
    /\ Value(request[1].attrs[3]) = 3
    /\ result = Ok(3)

\* C9: a connect call sends at most one message and receives at most once,
\* and receives only after a send that succeeded; a call whose encoding fails
\* sends nothing; a failed send gives that error with no receive; a receive
\* that yields no message gives NoResponse; and a call that returns an error
\* leaves the builder and the handle's family id as they were.
C9_Calls ==
    /\ io \in { <<>>, <<"send_err">>, <<"send_ok", "recv_err">>,
                <<"send_ok", "recv_none">>, <<"send_ok", "recv_msg">> }
    /\ (result.status = "err" /\ result.err = "EncodeFailure") <=>
           (result.status # "none" /\ ~Built)
    /\ ~Built => io = <<>>
    /\ io = <<"send_err">> <=> result = Err("TransmitFailure")
    /\ io = <<"send_ok", "recv_none">> <=> result = Err("NoResponse")
    /\ Received <=> io = <<"send_ok", "recv_msg">>
C9_ErrorStep ==
    result'.status = "err" =>
        /\ <<size_bytes, block_size_bytes, server_flags, client_flags>>'
              = <<size_bytes, block_size_bytes, server_flags, client_flags>>
        /\ nbd' = nbd
C9_OneSendOneReceive == [](C9_Calls) /\ [][C9_ErrorStep]_vars

C9_Witness ==
    /\ io = <<"send_err">>
    /\ result = Err("TransmitFailure")
    /\ nl # <<>>

\* C10: NBD::new gives a handle only when the socket opened and the family
\* was resolved, and the handle holds the kernel's family id; with the socket
\* open and no "nbd" family it gives FamilyNotFound, which is not the error of
\* a socket that did not open.
C10_NewHandle ==
    /\ nbd.open <=> new_result.ret = "ok"
    /\ nbd.open => /\ new_result.sock_ok
                   /\ kernel.registered
                   /\ nbd.nbd_family = kernel.family
    /\ (new_result.ret # "none" /\ new_result.sock_ok /\ ~kernel.registered)
         => new_result.ret = "FamilyNotFound"
    /\ (new_result.ret # "none" /\ ~new_result.sock_ok)
         => new_result.ret = "SocketOpen"
    /\ new_result.ret = "FamilyNotFound" => new_result.sock_ok

C10_Witness ==
    /\ ~kernel.registered
    /\ new_result = NewResult(TRUE, "FamilyNotFound")
    /\ ~nbd.open
====
